---- MODULE Spec2Model ----
(***************************************************************************)
(* A model of journalism/columns.py: the Column view over one slot of a    *)
(* table's rows, its three lazy caches, the NumberColumn statistics, the   *)
(* map/counts transforms that fork a new table, the ColumnIterator and     *)
(* ColumnMapping proxies, and the _cast rules of the three column types.   *)
(*                                                                         *)
(* Python values are records [type, int, str]; a Python reference that may *)
(* be None (a cache attribute, an optional argument) is <<>> when it is    *)
(* None and <<x>> when it refers to x, so that an empty list (<< <<>> >>)  *)
(* is told apart from None as `is None` tells them apart.  Positions and   *)
(* slot indices are 0-based as in the source; a Python list l is a TLA+    *)
(* sequence and l[j] is At(l, j).                                          *)
(***************************************************************************)
EXTENDS Integers, Sequences, FiniteSets, TLC

VARIABLES
    table,      \* the owning table: _data (row references), _column_names, _column_types
    heap,       \* row storage: heap[r] is the list held by row reference r
    columns,    \* columns[i + 1]: the Column the table's factory keeps for slot i
    result,     \* what the last call returned or raised
    orig,       \* the table's rows, names and types as constructed (history)
    iter,       \* a ColumnIterator: its _i, and what its next() calls yielded (history)
    cast        \* a column under casting: its type, its data, and the casts so far (history)

vars == <<table, heap, columns, result, orig, iter, cast>>

(***************************************************************************)
(* Bounds                                                                  *)
(***************************************************************************)
MaxRows == 3
MaxInt == 1
MaxCastLen == 2
MaxColumns == 3
MaxStops == 2

(***************************************************************************)
(* Python values                                                           *)
(***************************************************************************)
NoneV == [type |-> "NoneType", int |-> 0, str |-> <<>>]
IntV(n) == [type |-> "int", int |-> n, str |-> <<>>]
StrV(s) == [type |-> "str", int |-> 0, str |-> s]
\* a Decimal with an integral value
DecV(n) == [type |-> "Decimal", int |-> n, str |-> <<>>]

None == <<>>
Ref(x) == <<x>>
Deref(r) == r[1]

\* l[j] for a Python list l and a 0-based j inside it
At(l, j) == l[j + 1]

\* range(n)
Range(n) == 0 .. (n - 1)

\* Python 2 ordering of the values a column holds: None sorts before every number
Less(a, b) ==
    IF a.type = "NoneType" THEN b.type # "NoneType"
    ELSE IF b.type = "NoneType" THEN FALSE
    ELSE a.int < b.int

(***************************************************************************)
(* Exact numbers: num/den * sqrt(rad), den > 0, gcd(num, den) = 1, rad     *)
(* squarefree.  An int or a Decimal of the source is such a number; the    *)
(* Decimal context's rounding to 28 significant digits is not modelled.    *)
(***************************************************************************)
Abs(n) == IF n < 0 THEN -n ELSE n

RECURSIVE Gcd(_, _)
Gcd(a, b) == IF b = 0 THEN Abs(a) ELSE Gcd(b, a % b)

Num(n, d) ==
    LET g == Gcd(n, d)
        s == IF d < 0 THEN -1 ELSE 1
    IN  [num |-> s * (n \div g), den |-> s * (d \div g), rad |-> 1]

Whole(n) == [num |-> n, den |-> 1, rad |-> 1]
NumOf(v) == Whole(v.int)
Add(x, y) == Num(x.num * y.den + y.num * x.den, x.den * y.den)
Sub(x, y) == Num(x.num * y.den - y.num * x.den, x.den * y.den)
Mul(x, y) == Num(x.num * y.num, x.den * y.den)
Div(x, y) == Num(x.num * y.den, x.den * y.num)

\* the largest s with s * s dividing n (n > 0)
SquarePart(n) == CHOOSE s \in 1..n : /\ n % (s * s) = 0
                                     /\ \A t \in (s + 1)..n : n % (t * t) # 0

\* Decimal.sqrt of a number x >= 0 with rad = 1: sqrt(p/q) = s/q * sqrt(r), p*q = s*s*r
Sqrt(x) ==
    IF x.num = 0 THEN Whole(0)
    ELSE LET pq == x.num * x.den
             s == SquarePart(pq)
             q == Num(s, x.den)
         IN  [num |-> q.num, den |-> q.den, rad |-> pq \div (s * s)]

(***************************************************************************)
(* The table (journalism.table.Table, seen through what columns.py reads)  *)
(***************************************************************************)
ColumnNames == <<"a", "b">>
ColumnTypes == <<"IntColumn", "TextColumn">>
\* the subclasses of NumberColumn
NumberColumns == {"IntColumn", "DecimalColumn"}
NumColumns == Len(ColumnNames)
Slots == Range(NumColumns)

Values == {NoneV} \cup {IntV(n) : n \in 0..MaxInt}
\* the values the rows are drawn from, per slot
SlotValues == <<Values, {StrV(<<"x">>)}>>
Rows == {r \in [1..NumColumns -> UNION {SlotValues[k] : k \in 1..NumColumns}] :
            \A k \in 1..NumColumns : r[k] \in SlotValues[k]}

\* Column.__init__
NewColumn(i) ==
    [index |-> i,
     cached_data |-> None,
     cached_data_without_nulls |-> None,
     cached_data_sorted |-> None,
     fills |-> [data |-> 0, without_nulls |-> 0, sorted |-> 0]]

\* the rows of a table, read through its row references
RowsOf(t, h) == [k \in 1..Len(t.data) |-> h[t.data[k]]]

NoResult == [op |-> "", index |-> 0, args |-> <<>>, status |-> "", value |-> None]
\* no ColumnIterator made yet; calls and yielded record its next() calls
NoIter == [made |-> FALSE, i |-> 0, calls |-> 0, yielded |-> <<>>, last |-> ""]
NoCast == [type |-> "", data |-> <<>>, history |-> <<>>, status |-> ""]

TableInit ==
    /\ \E n \in 0..MaxRows : \E rows \in [1..n -> Rows] :
          /\ heap = rows
          /\ table = [data |-> [k \in 1..n |-> k],
                      column_names |-> ColumnNames,
                      column_types |-> ColumnTypes]
          /\ orig = [rows |-> rows, column_names |-> ColumnNames, column_types |-> ColumnTypes]
    /\ columns = [k \in 1..NumColumns |-> NewColumn(k - 1)]
    /\ result = NoResult

Init ==
    /\ TableInit
    /\ iter = NoIter
    /\ cast = NoCast

(***************************************************************************)
(* What a method call yields: the column as the call leaves it, and either *)
(* a value (status "ok") or the exception raised.                          *)
(***************************************************************************)
\* The({e(x) : x \in {v}}) is e(v), with v evaluated once: a call is made once and
\* its outcome named
The(S) == CHOOSE x \in S : TRUE

Ret(c, v) == [col |-> c, status |-> "ok", value |-> v]
Raise(c, e) == [col |-> c, status |-> e, value |-> None]

\* [r[self._index] for r in self._table._data]
Slice(c) == [k \in 1..Len(table.data) |-> heap[table.data[k]][c.index + 1]]

\* [d for d in l if d is not None]
RECURSIVE WithoutNulls(_)
WithoutNulls(l) ==
    IF l = <<>> THEN <<>>
    ELSE IF Head(l) = NoneV THEN WithoutNulls(Tail(l))
    ELSE <<Head(l)>> \o WithoutNulls(Tail(l))

\* sorted(l): a stable insertion of each element after those not greater than it
RECURSIVE Insert(_, _)
Insert(x, l) ==
    IF l = <<>> THEN <<x>>
    ELSE IF Less(x, Head(l)) THEN <<x>> \o l
    ELSE <<Head(l)>> \o Insert(x, Tail(l))

RECURSIVE Sorted(_)
Sorted(l) == IF l = <<>> THEN <<>> ELSE Insert(l[Len(l)], Sorted(SubSeq(l, 1, Len(l) - 1)))

Bump(n) == IF n < 2 THEN n + 1 ELSE n

\* _data testing `if not self._cached_data`: an empty cached slice counts as not cached
_data_falsy_check(c) ==
    IF c.cached_data = None \/ c.cached_data = Ref(<<>>)
    THEN LET c1 == [c EXCEPT !.cached_data = Ref(Slice(c)),
                             !.fills.data = Bump(@)]
         IN  Ret(c1, Deref(c1.cached_data))
    ELSE Ret(c, Deref(c.cached_data))

\* Column._data
_data(c) ==
    IF c.cached_data = None
    THEN LET c1 == [c EXCEPT !.cached_data = Ref(Slice(c)),
                             !.fills.data = Bump(@)]
         IN  Ret(c1, Deref(c1.cached_data))
    ELSE Ret(c, Deref(c.cached_data))

\* _data_without_nulls without its `if d is not None` filter
_data_without_nulls_unfiltered(c) ==
    IF c.cached_data_without_nulls = None
    THEN LET d == _data(c)
             c1 == [d.col EXCEPT !.cached_data_without_nulls = Ref(d.value),
                                 !.fills.without_nulls = Bump(@)]
         IN  Ret(c1, Deref(c1.cached_data_without_nulls))
    ELSE Ret(c, Deref(c.cached_data_without_nulls))

\* Column._data_without_nulls
_data_without_nulls(c) ==
    IF c.cached_data_without_nulls = None
    THEN LET d == _data(c)
             c1 == [d.col EXCEPT !.cached_data_without_nulls = Ref(WithoutNulls(d.value)),
                                 !.fills.without_nulls = Bump(@)]
         IN  Ret(c1, Deref(c1.cached_data_without_nulls))
    ELSE Ret(c, Deref(c.cached_data_without_nulls))

\* _data_sorted sorting the cached slice in place: self._data().sort()
_data_sorted_in_place(c) ==
    IF c.cached_data_sorted = None
    THEN LET d == _data(c)
             c1 == [d.col EXCEPT !.cached_data = Ref(Sorted(d.value)),
                                 !.cached_data_sorted = Ref(Sorted(d.value)),
                                 !.fills.sorted = Bump(@)]
         IN  Ret(c1, Deref(c1.cached_data_sorted))
    ELSE Ret(c, Deref(c.cached_data_sorted))

\* Column._data_sorted
_data_sorted(c) ==
    IF c.cached_data_sorted = None
    THEN LET d == _data(c)
             c1 == [d.col EXCEPT !.cached_data_sorted = Ref(Sorted(d.value)),
                                 !.fills.sorted = Bump(@)]
         IN  Ret(c1, Deref(c1.cached_data_sorted))
    ELSE Ret(c, Deref(c.cached_data_sorted))

\* __getitem__ refusing every negative position
__getitem___no_negative(c, j) ==
    LET d == _data(c)
    IN  IF j >= 0 /\ j < Len(d.value) THEN Ret(d.col, At(d.value, j))
        ELSE Raise(d.col, "IndexError")

\* Column.__getitem__: list indexing, a negative j counting from the end
__getitem__(c, j) ==
    LET d == _data(c)
        n == Len(d.value)
    IN  IF j >= 0 /\ j < n THEN Ret(d.col, At(d.value, j))
        ELSE IF j < 0 /\ j >= -n THEN Ret(d.col, At(d.value, n + j))
        ELSE Raise(d.col, "IndexError")

\* Column.__len__
__len__(c) == LET d == _data(c) IN Ret(d.col, Len(d.value))

\* Column.has_nulls
has_nulls(c) ==
    LET d == _data(c)
    IN  Ret(d.col, \E k \in 1..Len(d.value) : d.value[k] = NoneV)

\* Column.any / Column.all take a truth test; these are the tests the calls draw from
Tests == {"is_none", "is_zero"}
Test(f, v) == IF f = "is_none" THEN v = NoneV ELSE v = IntV(0)

\* Column.any
any(c, f) ==
    LET d == _data(c)
    IN  Ret(d.col, \E k \in 1..Len(d.value) : Test(f, d.value[k]))

\* Column.all
all(c, f) ==
    LET d == _data(c)
    IN  Ret(d.col, \A k \in 1..Len(d.value) : Test(f, d.value[k]))

\* the loop of Column.count, from position k on
RECURSIVE CountFrom(_, _, _)
CountFrom(l, value, k) ==
    IF k > Len(l) THEN 0
    ELSE (IF l[k] = value THEN 1 ELSE 0) + CountFrom(l, value, k + 1)

\* Column.count
count(c, value) ==
    LET d == _data(c)
    IN  Ret(d.col, CountFrom(d.value, value, 1))

(***************************************************************************)
(* Forking: map and counts build new row lists and hand them to the        *)
(* table's _fork.  A call that forks also yields the heap it leaves.       *)
(***************************************************************************)
RetFork(c, h, t) == [col |-> c, status |-> "ok", value |-> Ref(t), heap |-> h]
RaiseFork(c, h, e) == [col |-> c, status |-> e, value |-> None, heap |-> h]

\* Table._fork: a new table over the rows, types and names it is given
_fork(rows, column_types, column_names) ==
    [data |-> rows, column_names |-> column_names, column_types |-> column_types]

\* references to n lists allocated after those of heap h
Fresh(h, n) == [k \in 1..n |-> Len(h) + k]

\* data = self._table._data: the table's own row lists, not copies
deepcopy_alias(h, refs) == [heap |-> h, refs |-> refs]

\* copy.deepcopy(self._table._data): new row lists holding the same values
deepcopy(h, refs) ==
    [heap |-> h \o [k \in 1..Len(refs) |-> h[refs[k]]], refs |-> Fresh(h, Len(refs))]

\* the transforms Column.map is called with: incr is lambda x: x + 1, which
\* raises TypeError on None and on a string; zero is lambda x: 0
Transforms == {"incr", "zero"}
Apply(func, v) ==
    IF func = "zero" THEN [status |-> "ok", value |-> IntV(0)]
    ELSE IF v.type # "int" THEN [status |-> "TypeError", value |-> NoneV]
    ELSE [status |-> "ok", value |-> IntV(v.int + 1)]

\* truth value of an optional argument whose value is a class or a string
Truthy(o) == o # None /\ Deref(o) # ""

\* the loop of Column.map, from row k on: row[self._index] = func(row[self._index])
RECURSIVE MapRows(_, _, _, _, _)
MapRows(h, refs, k, index, func) ==
    IF k > Len(refs) THEN [heap |-> h, status |-> "ok"]
    ELSE LET r == Apply(func, h[refs[k]][index + 1])
         IN  IF r.status # "ok" THEN [heap |-> h, status |-> r.status]
             ELSE MapRows([h EXCEPT ![refs[k]][index + 1] = r.value], refs, k + 1, index, func)

\* Column.map
map(c, func, new_column_type, new_column_name) ==
    LET data == deepcopy(heap, table.data)
        m == MapRows(data.heap, data.refs, 1, c.index, func)
        column_types == IF Truthy(new_column_type)
                        THEN [table.column_types EXCEPT ![c.index + 1] = Deref(new_column_type)]
                        ELSE table.column_types
        column_names == IF Truthy(new_column_name)
                        THEN [table.column_names EXCEPT ![c.index + 1] = Deref(new_column_name)]
                        ELSE table.column_names
    IN  IF m.status # "ok" THEN RaiseFork(c, m.heap, m.status)
        ELSE RetFork(c, m.heap, _fork(data.refs, column_types, column_names))

\* the keys of the dict counts() and mode() fill, and the orders its iteration may take
Keys(l) == {l[k] : k \in 1..Len(l)}
Orders(S) == {o \in [1..Cardinality(S) -> S] : \A a, b \in 1..Cardinality(S) : o[a] = o[b] => a = b}

\* sorted(data, key=lambda r: r[1], reverse=True): stable, larger counts first
RECURSIVE InsertByCount(_, _)
InsertByCount(x, l) ==
    IF l = <<>> THEN <<x>>
    ELSE IF x[2].int > Head(l)[2].int THEN <<x>> \o l
    ELSE <<Head(l)>> \o InsertByCount(x, Tail(l))

\* sorted(data, key=lambda r: r[1]) without reverse=True: smaller counts first
RECURSIVE InsertByCountAscending(_, _)
InsertByCountAscending(x, l) ==
    IF l = <<>> THEN <<x>>
    ELSE IF x[2].int < Head(l)[2].int THEN <<x>> \o l
    ELSE <<Head(l)>> \o InsertByCountAscending(x, Tail(l))

RECURSIVE SortedByCountAscending(_)
SortedByCountAscending(l) ==
    IF l = <<>> THEN <<>>
    ELSE InsertByCountAscending(l[Len(l)], SortedByCountAscending(SubSeq(l, 1, Len(l) - 1)))

RECURSIVE SortedByCount(_)
SortedByCount(l) ==
    IF l = <<>> THEN <<>>
    ELSE InsertByCount(l[Len(l)], SortedByCount(SubSeq(l, 1, Len(l) - 1)))

\* Column.counts, the dict iterating its keys in the given order
counts(c, order) ==
    LET d == _data(c)
        column_names == <<table.column_names[c.index + 1], "count">>
        column_types == <<table.column_types[c.index + 1], "IntColumn">>
        data == [k \in 1..Len(order) |-> <<order[k], IntV(CountFrom(d.value, order[k], 1))>>]
        refs == Fresh(heap, Len(data))
        \* each new row list keeps its reference; sorted() orders the references
        tagged == [k \in 1..Len(data) |-> <<refs[k], data[k][2]>>]
        rows == [k \in 1..Len(data) |-> SortedByCount(tagged)[k][1]]
    IN  RetFork(d.col, heap \o data, _fork(rows, column_types, column_names))

(***************************************************************************)
(* NumberColumn                                                            *)
(***************************************************************************)
\* the builtin sum over a list of numbers, starting from 0
RECURSIVE SumList(_)
SumList(l) == IF l = <<>> THEN Whole(0) ELSE Add(NumOf(Head(l)), SumList(Tail(l)))

\* the builtin min / max over a non-empty list: the first least / greatest element
RECURSIVE MinList(_)
MinList(l) ==
    IF Len(l) = 1 THEN l[1]
    ELSE LET m == MinList(Tail(l)) IN IF Less(m, Head(l)) THEN m ELSE Head(l)

RECURSIVE MaxList(_)
MaxList(l) ==
    IF Len(l) = 1 THEN l[1]
    ELSE LET m == MaxList(Tail(l)) IN IF Less(Head(l), m) THEN m ELSE Head(l)

\* NumberColumn.sum
sum(c) ==
    LET d == _data_without_nulls(c)
    IN  Ret(d.col, SumList(d.value))

\* NumberColumn.min
min(c) ==
    LET d == _data_without_nulls(c)
    IN  IF d.value = <<>> THEN Raise(d.col, "ValueError")
        ELSE Ret(d.col, NumOf(MinList(d.value)))

\* NumberColumn.max
max(c) ==
    LET d == _data_without_nulls(c)
    IN  IF d.value = <<>> THEN Raise(d.col, "ValueError")
        ELSE Ret(d.col, NumOf(MaxList(d.value)))

\* no_null_computations without its has_nulls test
check_skipped(c) == Ret(c, FALSE)

\* no_null_computations, up to the call of the decorated function
check(c) ==
    The({IF h.value THEN Raise(h.col, "NullComputationError") ELSE Ret(h.col, FALSE) :
         h \in {has_nulls(c)}})

\* the body of NumberColumn.mean: Decimal(self.sum()) / len(self)
mean_func(c) ==
    The({The({IF n.value = 0 THEN Raise(n.col, "InvalidOperation")
              ELSE Ret(n.col, Div(s.value, Whole(n.value))) :
              n \in {__len__(s.col)}}) :
         s \in {sum(c)}})

\* NumberColumn.mean
mean(c) == The({IF g.status # "ok" THEN g ELSE mean_func(g.col) : g \in {check(c)}})

\* the body of NumberColumn.median (Python 2: / on ints is floor division)
median_func(c) ==
    LET d == _data_sorted(c)
        data == d.value
        length == Len(data)
    IN  IF length % 2 = 1 THEN Ret(d.col, NumOf(At(data, ((length + 1) \div 2) - 1)))
        ELSE IF length = 0 THEN Raise(d.col, "IndexError")
        ELSE LET a == At(data, (length \div 2) - 1)
                 b == At(data, length \div 2)
             IN  Ret(d.col, Div(Add(NumOf(a), NumOf(b)), Whole(2)))

\* NumberColumn.median
median(c) == The({IF g.status # "ok" THEN g ELSE median_func(g.col) : g \in {check(c)}})

\* max(state.keys(), key=...): the first key, in the dict's order, no later key exceeds
RECURSIVE MaxByCount(_, _)
MaxByCount(order, l) ==
    IF Len(order) = 1 THEN order[1]
    ELSE LET m == MaxByCount(Tail(order), l)
         IN  IF CountFrom(l, m, 1) > CountFrom(l, Head(order), 1) THEN m ELSE Head(order)

\* the body of NumberColumn.mode, the dict iterating its keys in the given order
mode_func(c, order) ==
    LET d == _data(c)
    IN  IF order = <<>> THEN Raise(d.col, "ValueError")
        ELSE Ret(d.col, NumOf(MaxByCount(order, d.value)))

\* NumberColumn.mode
mode(c, order) ==
    The({IF g.status # "ok" THEN g ELSE mode_func(g.col, order) : g \in {check(c)}})

\* sum((n - self.mean()) ** 2 for n in data), from position k on
RECURSIVE SquaredDeviations(_, _, _)
SquaredDeviations(c, data, k) ==
    IF k > Len(data) THEN Ret(c, Whole(0))
    ELSE The({IF m.status # "ok" THEN m
              ELSE The({IF rest.status # "ok" THEN rest
                        ELSE Ret(rest.col, Add(Mul(dev, dev), rest.value)) :
                        dev \in {Sub(NumOf(data[k]), m.value)},
                        rest \in {SquaredDeviations(m.col, data, k + 1)}}) :
              m \in {mean(c)}})

\* the body of NumberColumn.variance
variance_func(c) ==
    The({The({IF s.status # "ok" THEN s
              ELSE IF Len(d.value) = 0 THEN Raise(s.col, "ZeroDivisionError")
              ELSE Ret(s.col, Div(s.value, Whole(Len(d.value)))) :
              s \in {SquaredDeviations(d.col, d.value, 1)}}) :
         d \in {_data(c)}})

\* NumberColumn.variance
variance(c) == The({IF g.status # "ok" THEN g ELSE variance_func(g.col) : g \in {check(c)}})

\* the body of NumberColumn.stdev
stdev_func(c) ==
    The({IF v.status # "ok" THEN v ELSE Ret(v.col, Sqrt(v.value)) : v \in {variance(c)}})

\* NumberColumn.stdev
stdev(c) == The({IF g.status # "ok" THEN g ELSE stdev_func(g.col) : g \in {check(c)}})

(***************************************************************************)
(* Calls.  The table's factory keeps one Column per slot, so a call on     *)
(* slot i acts on columns[i + 1] and leaves its caches as the call left    *)
(* them.  A table a previous call returned is dropped with that result.    *)
(***************************************************************************)
\* Table._get_column
_get_column(i) == columns[i + 1]

\* the caller is between calls: it holds no result
Idle == result = NoResult

\* row lists no table refers to are freed
Collect(h, keep) == SubSeq(h, 1, keep)

\* a call made by an idle caller has returned or raised r
Finish(i, op, args, r) ==
    /\ columns' = [columns EXCEPT ![i + 1] = r.col]
    /\ result' = [op |-> op, index |-> i, args |-> args, status |-> r.status, value |-> r.value]
    /\ UNCHANGED <<table, heap, orig, iter, cast>>

FinishFork(i, op, args, r) ==
    /\ columns' = [columns EXCEPT ![i + 1] = r.col]
    /\ result' = [op |-> op, index |-> i, args |-> args, status |-> r.status, value |-> r.value]
    /\ heap' = IF r.status = "ok" THEN r.heap ELSE Collect(r.heap, Len(table.data))
    /\ UNCHANGED <<table, orig, iter, cast>>

\* the caller drops the result; a table it held is freed
Discard ==
    /\ ~Idle
    /\ result' = NoResult
    /\ heap' = Collect(heap, Len(table.data))
    /\ UNCHANGED <<table, columns, orig, iter, cast>>

Call_len(i) ==
    /\ Idle
    /\ \E r \in {__len__(_get_column(i))} : Finish(i, "__len__", <<>>, r)

Call_getitem(i, j) ==
    /\ Idle
    /\ \E r \in {__getitem__(_get_column(i), j)} : Finish(i, "__getitem__", <<j>>, r)

Call_has_nulls(i) ==
    /\ Idle
    /\ \E r \in {has_nulls(_get_column(i))} : Finish(i, "has_nulls", <<>>, r)

Call_any(i, f) ==
    /\ Idle
    /\ \E r \in {any(_get_column(i), f)} : Finish(i, "any", <<f>>, r)

Call_all(i, f) ==
    /\ Idle
    /\ \E r \in {all(_get_column(i), f)} : Finish(i, "all", <<f>>, r)

Call_count(i, v) ==
    /\ Idle
    /\ \E r \in {count(_get_column(i), v)} : Finish(i, "count", <<v>>, r)

Call_map(i, f, t, n) ==
    /\ Idle
    /\ \E r \in {map(_get_column(i), f, t, n)} : FinishFork(i, "map", <<f, t, n>>, r)

Call_counts(i) ==
    /\ Idle
    /\ \E order \in Orders(Keys(Slice(_get_column(i)))) :
          \E r \in {counts(_get_column(i), order)} : FinishFork(i, "counts", <<>>, r)

\* the slots whose column is a NumberColumn: only these have the statistics
NumberSlots == {i \in Slots : table.column_types[i + 1] \in NumberColumns}

Call_sum(i) ==
    /\ Idle
    /\ \E r \in {sum(_get_column(i))} : Finish(i, "sum", <<>>, r)

Call_min(i) ==
    /\ Idle
    /\ \E r \in {min(_get_column(i))} : Finish(i, "min", <<>>, r)

Call_max(i) ==
    /\ Idle
    /\ \E r \in {max(_get_column(i))} : Finish(i, "max", <<>>, r)

Call_mean(i) ==
    /\ Idle
    /\ \E r \in {mean(_get_column(i))} : Finish(i, "mean", <<>>, r)

Call_median(i) ==
    /\ Idle
    /\ \E r \in {median(_get_column(i))} : Finish(i, "median", <<>>, r)

Call_mode(i) ==
    /\ Idle
    /\ \E order \in Orders(Keys(Slice(_get_column(i)))) :
          \E r \in {mode(_get_column(i), order)} : Finish(i, "mode", <<>>, r)

Call_variance(i) ==
    /\ Idle
    /\ \E r \in {variance(_get_column(i))} : Finish(i, "variance", <<>>, r)

Call_stdev(i) ==
    /\ Idle
    /\ \E r \in {stdev(_get_column(i))} : Finish(i, "stdev", <<>>, r)

\* the optional arguments Column.map is called with
NewTypes == {None, Ref("DecimalColumn")}
NewNames == {None, Ref(""), Ref("z")}

Next ==
    \/ \E i \in Slots : Call_len(i)
    \/ \E i \in Slots : \E j \in -(Len(table.data) + 1)..(Len(table.data) + 1) : Call_getitem(i, j)
    \/ \E i \in Slots : Call_has_nulls(i)
    \/ \E i \in Slots : \E f \in Tests : Call_any(i, f)
    \/ \E i \in Slots : \E f \in Tests : Call_all(i, f)
    \/ \E i \in Slots : \E v \in Values : Call_count(i, v)
    \/ \E i \in Slots : \E f \in Transforms : \E t \in NewTypes : \E n \in NewNames :
          Call_map(i, f, t, n)
    \/ \E i \in Slots : Call_counts(i)
    \/ \E i \in NumberSlots : Call_sum(i)
    \/ \E i \in NumberSlots : Call_min(i)
    \/ \E i \in NumberSlots : Call_max(i)
    \/ \E i \in NumberSlots : Call_mean(i)
    \/ \E i \in NumberSlots : Call_median(i)
    \/ \E i \in NumberSlots : Call_mode(i)
    \/ \E i \in NumberSlots : Call_variance(i)
    \/ \E i \in NumberSlots : Call_stdev(i)
    \/ Discard

Spec == Init /\ [][Next]_vars

(***************************************************************************)
(* ColumnIterator and ColumnMapping, over a table with any column names    *)
(***************************************************************************)
Names == {"a", "b", "c", "d"}
NameLists == UNION {{l \in [1..n -> Names] : \A x, y \in 1..n : l[x] = l[y] => x = y} :
                     n \in 0..MaxColumns}

InitIter ==
    /\ \E names \in NameLists :
          /\ table = [data |-> <<>>, column_names |-> names,
                      column_types |-> [k \in 1..Len(names) |-> "TextColumn"]]
          /\ orig = [rows |-> <<>>, column_names |-> names,
                     column_types |-> [k \in 1..Len(names) |-> "TextColumn"]]
          /\ columns = [k \in 1..Len(names) |-> NewColumn(k - 1)]
    /\ heap = <<>>
    /\ result = NoResult
    /\ iter = NoIter
    /\ cast = NoCast

\* ColumnIterator.__init__
ColumnIterator == [made |-> TRUE, i |-> 0, calls |-> 0, yielded |-> <<>>, last |-> ""]

\* next without its self._i += 1
next_no_advance(it) ==
    IF ~(it.i < Len(table.column_names))
    THEN [it |-> it, status |-> "StopIteration", value |-> None]
    ELSE [it |-> it, status |-> "ok", value |-> Ref(_get_column(it.i))]

\* ColumnIterator.next: the iterator as the call leaves it, and the column or StopIteration
next(it) ==
    IF ~(it.i < Len(table.column_names))
    THEN [it |-> it, status |-> "StopIteration", value |-> None]
    ELSE LET column == _get_column(it.i)
         IN  [it |-> [it EXCEPT !.i = @ + 1], status |-> "ok", value |-> Ref(column)]

\* ColumnMapping.__iter__
Mapping_iter ==
    /\ iter' = ColumnIterator
    /\ result' = [op |-> "__iter__", index |-> 0, args |-> <<>>, status |-> "ok", value |-> None]
    /\ UNCHANGED <<table, heap, columns, orig, cast>>

\* ColumnMapping.__len__
Mapping_len ==
    /\ result' = [op |-> "__len__", index |-> 0, args |-> <<>>, status |-> "ok",
                  value |-> Len(table.column_names)]
    /\ UNCHANGED <<table, heap, columns, orig, iter, cast>>

\* a next() call on the iterator; the calls after exhaustion are bounded by MaxStops
Iterator_next ==
    /\ iter.made
    /\ iter.calls < Len(table.column_names) + MaxStops
    /\ LET r == next(iter)
       IN  /\ iter' = [r.it EXCEPT !.calls = @ + 1,
                                   !.yielded = IF r.status = "ok" THEN Append(@, Deref(r.value))
                                               ELSE @,
                                   !.last = r.status]
           /\ result' = [op |-> "next", index |-> iter.i, args |-> <<>>, status |-> r.status,
                         value |-> r.value]
    /\ UNCHANGED <<table, heap, columns, orig, cast>>

NextIter ==
    \/ Mapping_iter
    \/ Mapping_len
    \/ Iterator_next

SpecIter == InitIter /\ [][NextIter]_vars


(***************************************************************************)
(* _cast of TextColumn, IntColumn and DecimalColumn.  A string is the      *)
(* sequence of its characters.                                             *)
(***************************************************************************)
Digits == <<"0", "1", "2", "3", "4", "5", "6", "7", "8", "9">>
IsDigit(ch) == \E k \in 1..10 : Digits[k] = ch
DigitValue(ch) == (CHOOSE k \in 1..10 : Digits[k] = ch) - 1

\* str(n) for an int n
RECURSIVE NatToStr(_)
NatToStr(n) == IF n < 10 THEN <<Digits[n + 1]>> ELSE NatToStr(n \div 10) \o <<Digits[(n % 10) + 1]>>
IntToStr(n) == IF n < 0 THEN <<"-">> \o NatToStr(-n) ELSE NatToStr(n)

\* unicode(d)
unicode(d) ==
    IF d.type = "str" THEN d
    ELSE IF d.type = "NoneType" THEN StrV(<<"N", "o", "n", "e">>)
    ELSE StrV(IntToStr(d.int))

\* s.replace(',', '')
RECURSIVE RemoveCommas(_)
RemoveCommas(s) ==
    IF s = <<>> THEN <<>>
    ELSE IF Head(s) = "," THEN RemoveCommas(Tail(s))
    ELSE <<Head(s)>> \o RemoveCommas(Tail(s))

\* s.strip()
RECURSIVE LStrip(_)
LStrip(s) == IF s # <<>> /\ Head(s) = " " THEN LStrip(Tail(s)) ELSE s
RECURSIVE RStrip(_)
RStrip(s) == IF s # <<>> /\ s[Len(s)] = " " THEN RStrip(SubSeq(s, 1, Len(s) - 1)) ELSE s
Strip(s) == RStrip(LStrip(s))

\* the value of a string of digits
RECURSIVE DigitsValue(_)
DigitsValue(s) ==
    IF s = <<>> THEN 0 ELSE 10 * DigitsValue(SubSeq(s, 1, Len(s) - 1)) + DigitValue(s[Len(s)])

\* the integer a numeric string denotes: an optional sign and digits, or a failure
ParseInt(s) ==
    LET body == IF s # <<>> /\ Head(s) \in {"-", "+"} THEN Tail(s) ELSE s
        sign == IF s # <<>> /\ Head(s) = "-" THEN -1 ELSE 1
    IN  IF body # <<>> /\ \A k \in 1..Len(body) : IsDigit(body[k])
        THEN [status |-> "ok", value |-> sign * DigitsValue(body)]
        ELSE [status |-> "error", value |-> 0]

\* int(d) for a string or a number d
int(d) ==
    IF d.type = "str"
    THEN LET p == ParseInt(Strip(d.str))
         IN  IF p.status = "ok" THEN [status |-> "ok", value |-> IntV(p.value)]
             ELSE [status |-> "ValueError", value |-> NoneV]
    ELSE [status |-> "ok", value |-> IntV(d.int)]

\* Decimal(d) for a string or a number d
Decimal(d) ==
    IF d.type = "str"
    THEN LET p == ParseInt(Strip(d.str))
         IN  IF p.status = "ok" THEN [status |-> "ok", value |-> DecV(p.value)]
             ELSE [status |-> "InvalidOperation", value |-> NoneV]
    ELSE [status |-> "ok", value |-> DecV(d.int)]

\* one round of the loop of TextColumn._cast
TextColumn_cast1(d) ==
    IF d = StrV(<<>>) THEN [status |-> "ok", value |-> NoneV]
    ELSE [status |-> "ok", value |-> unicode(d)]

\* if isinstance(d, basestring): d = d.replace(',', '').strip()
Cleaned(d) == IF d.type = "str" THEN StrV(Strip(RemoveCommas(d.str))) ELSE d

\* one round of the loop of IntColumn._cast
IntColumn_cast1(d) ==
    LET e == Cleaned(d)
    IN  IF e = StrV(<<>>) \/ e = NoneV THEN [status |-> "ok", value |-> NoneV]
        ELSE int(e)

\* one round of the loop of DecimalColumn._cast
DecimalColumn_cast1(d) ==
    LET e == Cleaned(d)
    IN  IF e = StrV(<<>>) \/ e = NoneV THEN [status |-> "ok", value |-> NoneV]
        ELSE Decimal(e)

Cast1(type, d) ==
    IF type = "TextColumn" THEN TextColumn_cast1(d)
    ELSE IF type = "IntColumn" THEN IntColumn_cast1(d)
    ELSE DecimalColumn_cast1(d)

\* _cast over the column's data: the casted list, or the first failure
RECURSIVE _cast(_, _)
_cast(type, data) ==
    IF data = <<>> THEN [status |-> "ok", value |-> <<>>]
    ELSE LET r == Cast1(type, Head(data))
             rest == _cast(type, Tail(data))
         IN  IF r.status # "ok" THEN [status |-> r.status, value |-> <<>>]
             ELSE IF rest.status # "ok" THEN rest
             ELSE [status |-> "ok", value |-> <<r.value>> \o rest.value]

\* the raw values a column holds before it is cast
RawValues == {NoneV, StrV(<<>>), StrV(<<" ">>), StrV(<<"1", ",", "0">>), StrV(<<"x">>), IntV(7)}
CastTypes == {"TextColumn", "IntColumn", "DecimalColumn"}

InitCast ==
    /\ \E type \in CastTypes : \E n \in 0..MaxCastLen : \E data \in [1..n -> RawValues] :
          cast = [type |-> type, data |-> data, history |-> <<data>>, status |-> "ok"]
    /\ table = [data |-> <<>>, column_names |-> <<>>, column_types |-> <<>>]
    /\ orig = [rows |-> <<>>, column_names |-> <<>>, column_types |-> <<>>]
    /\ columns = <<>>
    /\ heap = <<>>
    /\ result = NoResult
    /\ iter = NoIter

\* the column is cast, and holds the casted values from then on; it is cast at most twice
Cast ==
    /\ cast.status = "ok"
    /\ Len(cast.history) < 3
    /\ LET r == _cast(cast.type, cast.data)
       IN  cast' = IF r.status = "ok"
                   THEN [cast EXCEPT !.data = r.value, !.history = Append(@, r.value)]
                   ELSE [cast EXCEPT !.status = r.status]
    /\ UNCHANGED <<table, heap, columns, result, orig, iter>>

NextCast == Cast

SpecCast == InitCast /\ [][NextCast]_vars

(***************************************************************************)
(* What the properties are stated against: the table as constructed, read  *)
(* row by row, and the statistics computed from their definitions.         *)
(***************************************************************************)
\* the values of slot i, top to bottom: [row[i] for row in rows]
ColumnOf(i) == [k \in 1..Len(orig.rows) |-> orig.rows[k][i + 1]]

Occurrences(l, v) == Cardinality({k \in 1..Len(l) : l[k] = v})
HasNull(l) == \E k \in 1..Len(l) : l[k] = NoneV
NonNullPositions(l) == {k \in 1..Len(l) : l[k] # NoneV}
AllNull(l) == NonNullPositions(l) = {}

RECURSIVE Total(_, _)
Total(l, S) == IF S = {} THEN 0 ELSE LET k == CHOOSE x \in S : TRUE IN l[k].int + Total(l, S \ {k})

\* the k-th smallest (k >= 1) of a list of ints
Kth(l, k) ==
    CHOOSE x \in {l[p].int : p \in 1..Len(l)} :
        /\ Cardinality({p \in 1..Len(l) : l[p].int < x}) < k
        /\ Cardinality({p \in 1..Len(l) : l[p].int <= x}) >= k

\* q = a / b, for numbers with rad = 1
IsQuotient(q, a, b) == q.rad = 1 /\ q.den > 0 /\ q.num * b = a * q.den /\ Gcd(q.num, q.den) = 1

IsMean(q, l) == IsQuotient(q, Total(l, 1..Len(l)), Len(l))

IsMedian(q, l) ==
    LET n == Len(l)
    IN  IF n % 2 = 1 THEN q = Whole(Kth(l, (n + 1) \div 2))
        ELSE IsQuotient(q, Kth(l, n \div 2) + Kth(l, (n \div 2) + 1), 2)

IsMode(q, l) ==
    \E k \in 1..Len(l) : /\ q = Whole(l[k].int)
                         /\ \A p \in 1..Len(l) : Occurrences(l, l[p]) <= Occurrences(l, l[k])

\* the population variance, over the common denominator n^3: sum (n*x - S)^2 / n^3
RECURSIVE ScaledSquares(_, _, _)
ScaledSquares(l, S, t) ==
    IF S = {} THEN 0
    ELSE LET k == CHOOSE x \in S : TRUE
         IN  (Len(l) * l[k].int - t) * (Len(l) * l[k].int - t) + ScaledSquares(l, S \ {k}, t)

VarianceNum(l) == ScaledSquares(l, 1..Len(l), Total(l, 1..Len(l)))
VarianceDen(l) == Len(l) * Len(l) * Len(l)

IsVariance(q, l) == IsQuotient(q, VarianceNum(l), VarianceDen(l))

\* q >= 0 and q * q = the variance
IsStdev(q, l) ==
    /\ q.num >= 0 /\ q.den > 0 /\ q.rad >= 1
    /\ q.num * q.num * q.rad * VarianceDen(l) = VarianceNum(l) * q.den * q.den

IsStatistic(op, q, l) ==
    IF op = "mean" THEN IsMean(q, l)
    ELSE IF op = "median" THEN IsMedian(q, l)
    ELSE IF op = "mode" THEN IsMode(q, l)
    ELSE IF op = "variance" THEN IsVariance(q, l)
    ELSE IsStdev(q, l)

NullSensitive == {"mean", "median", "mode", "variance", "stdev"}

\* how each null-sensitive statistic fails on a column with no rows
EmptyFailure(op) ==
    IF op = "mean" THEN "InvalidOperation"
    ELSE IF op = "median" THEN "IndexError"
    ELSE IF op = "mode" THEN "ValueError"
    ELSE "ZeroDivisionError"

TableUnchanged ==
    /\ RowsOf(table, heap) = orig.rows
    /\ table.column_names = orig.column_names
    /\ table.column_types = orig.column_types

(***************************************************************************)
(* C1.  Column.map never mutates its source: across a call of map, whether *)
(* it returns or fails, the table's rows, column names and column types    *)
(* and every already-populated cached slice stay what they were, and the   *)
(* table it returns holds none of the original's row lists.                *)
(***************************************************************************)
C1_MapStep ==
    (Idle /\ result'.op = "map") =>
        /\ RowsOf(table', heap') = RowsOf(table, heap)
        /\ table'.column_names = table.column_names
        /\ table'.column_types = table.column_types
        /\ \A i \in Slots :
              columns[i + 1].cached_data # None =>
                  columns'[i + 1].cached_data = columns[i + 1].cached_data
        /\ result'.status = "ok" =>
              {Deref(result'.value).data[k] : k \in 1..Len(Deref(result'.value).data)}
                  \cap {table.data[k] : k \in 1..Len(table.data)} = {}

C1_MapNeverMutatesSource == [][C1_MapStep]_vars

\* a map that returned a table whose slot differs from the source's, the slice being cached
C1_Witness ==
    /\ result.op = "map" /\ result.status = "ok"
    /\ Len(table.data) >= 2
    /\ columns[result.index + 1].cached_data # None
    /\ RowsOf(Deref(result.value), heap) # RowsOf(table, heap)

(***************************************************************************)
(* C2.  View consistency: in every reachable state, for every column C of  *)
(* the table and every position j in [0, length), C.at(j) is the value at  *)
(* C's slot of row j of the table.                                         *)
(***************************************************************************)
C2_ViewConsistency ==
    \A i \in Slots : \A j \in Range(Len(table.data)) :
        LET r == __getitem__(_get_column(i), j)
        IN  r.status = "ok" /\ r.value = RowsOf(table, heap)[j + 1][i + 1]

\* the sorted slice is cached and differs from the slice itself
C2_Witness ==
    /\ result.op = "median" /\ result.status = "ok"
    /\ columns[1].cached_data # None
    /\ columns[1].cached_data_sorted # None
    /\ columns[1].cached_data_sorted # columns[1].cached_data

(***************************************************************************)
(* C3.  hasNulls() is true iff the absent marker occurs in the column.     *)
(* mean, median, mode, variance and stdev raise NullComputationError when  *)
(* the column has a null, leaving the nulls-removed and sorted caches as   *)
(* they were.  Amended: they succeed with the value of their definition    *)
(* when the column has no null and at least one row; on a column with no   *)
(* rows they fail.  Original: they succeed whenever there is no null.      *)
(***************************************************************************)
C3_HasNullsStep ==
    (Idle /\ result'.op = "has_nulls") =>
        result'.status = "ok" /\ result'.value = HasNull(ColumnOf(result'.index))

C3_GuardStep ==
    (Idle /\ result'.op \in NullSensitive /\ HasNull(ColumnOf(result'.index))) =>
        /\ result'.status = "NullComputationError"
        /\ columns'[result'.index + 1].cached_data_without_nulls
              = columns[result'.index + 1].cached_data_without_nulls
        /\ columns'[result'.index + 1].cached_data_sorted
              = columns[result'.index + 1].cached_data_sorted

C3_ValueStep ==
    (Idle /\ result'.op \in NullSensitive /\ ~HasNull(ColumnOf(result'.index))
          /\ Len(orig.rows) > 0) =>
        /\ result'.status = "ok"
        /\ IsStatistic(result'.op, result'.value, ColumnOf(result'.index))

C3_EmptyStep ==
    (Idle /\ result'.op \in NullSensitive /\ Len(orig.rows) = 0) =>
        result'.status = EmptyFailure(result'.op)

C3_OriginalValueStep ==
    (Idle /\ result'.op \in NullSensitive /\ ~HasNull(ColumnOf(result'.index))) =>
        result'.status = "ok"

C3_NullSensitiveStatistics ==
    [][C3_HasNullsStep /\ C3_GuardStep /\ C3_ValueStep /\ C3_EmptyStep]_vars

C3_Original ==
    [][C3_HasNullsStep /\ C3_GuardStep /\ C3_ValueStep /\ C3_OriginalValueStep]_vars

\* a statistic that succeeded with a value that is no integer
C3_Witness ==
    /\ result.op = "stdev" /\ result.status = "ok"
    /\ result.value.rad # 1

(***************************************************************************)
(* C4.  sum, min and max are computed over the column's values with the    *)
(* absent marker removed.  Amended: when the column is entirely null (no   *)
(* rows included) min and max fail with ValueError, and sum returns 0.     *)
(* Original: each of the three fails then.                                 *)
(***************************************************************************)
IsAggregate(op, q, l) ==
    LET S == NonNullPositions(l)
    IN  IF op = "sum" THEN q = Whole(Total(l, S))
        ELSE IF op = "min" THEN \E k \in S : q = Whole(l[k].int) /\ \A p \in S : l[k].int <= l[p].int
        ELSE \E k \in S : q = Whole(l[k].int) /\ \A p \in S : l[p].int <= l[k].int

C4_NonEmpty ==
    (result.op \in {"sum", "min", "max"} /\ ~AllNull(ColumnOf(result.index))) =>
        result.status = "ok" /\ IsAggregate(result.op, result.value, ColumnOf(result.index))

C4_Aggregates ==
    /\ C4_NonEmpty
    /\ (result.op \in {"min", "max"} /\ AllNull(ColumnOf(result.index))) =>
          result.status = "ValueError"
    /\ (result.op = "sum" /\ AllNull(ColumnOf(result.index))) =>
          result.status = "ok" /\ result.value = Whole(0)

C4_Original ==
    /\ C4_NonEmpty
    /\ (result.op \in {"sum", "min", "max"} /\ AllNull(ColumnOf(result.index))) =>
          result.status # "ok"

\* min over a column that has nulls and numbers
C4_Witness ==
    /\ result.op = "min" /\ result.status = "ok"
    /\ HasNull(ColumnOf(result.index))
    /\ result.value = Whole(1)

(***************************************************************************)
(* C5.  Column.at(j).  Amended: it returns a value exactly when            *)
(* -length <= j < length, the value at position j, or at position          *)
(* length + j for a negative j; for every other j it fails with            *)
(* IndexError and returns no value.  Original: it returns a value only     *)
(* when 0 <= j < length.                                                   *)
(***************************************************************************)
C5_At ==
    result.op = "__getitem__" =>
        LET j == result.args[1]
            l == ColumnOf(result.index)
            n == Len(l)
        IN  IF 0 <= j /\ j < n THEN result.status = "ok" /\ result.value = l[j + 1]
            ELSE IF -n <= j /\ j < 0 THEN result.status = "ok" /\ result.value = l[n + j + 1]
            ELSE result.status = "IndexError" /\ result.value = None

C5_Original ==
    result.op = "__getitem__" =>
        LET j == result.args[1]
            l == ColumnOf(result.index)
            n == Len(l)
        IN  IF 0 <= j /\ j < n THEN result.status = "ok" /\ result.value = l[j + 1]
            ELSE result.status = "IndexError" /\ result.value = None

\* a negative position that returned a value other than the first row's
C5_Witness ==
    /\ result.op = "__getitem__" /\ result.status = "ok"
    /\ result.args[1] = -1
    /\ result.value # ColumnOf(result.index)[1]

(***************************************************************************)
(* C6.  Column.counts() returns a new table of two columns, named          *)
(* (the column's name, "count") and typed (the column's type, IntColumn),  *)
(* with exactly one row per distinct value of the column, the absent       *)
(* marker included; each row's count is the number of occurrences of its   *)
(* value, so the counts sum to the length; the rows are in non-increasing  *)
(* order of count; and the original table is unchanged.                    *)
(***************************************************************************)
RECURSIVE SumCounts(_)
SumCounts(rows) == IF rows = <<>> THEN 0 ELSE Head(rows)[2].int + SumCounts(Tail(rows))

C6_Counts ==
    result.op = "counts" =>
        /\ result.status = "ok"
        /\ LET t == Deref(result.value)
               rows == RowsOf(t, heap)
               l == ColumnOf(result.index)
           IN  /\ t.column_names = <<orig.column_names[result.index + 1], "count">>
               /\ t.column_types = <<orig.column_types[result.index + 1], "IntColumn">>
               /\ \A k \in 1..Len(rows) : Len(rows[k]) = 2
               /\ {rows[k][1] : k \in 1..Len(rows)} = Keys(l)
               /\ Len(rows) = Cardinality(Keys(l))
               /\ \A k \in 1..Len(rows) : rows[k][2] = IntV(Occurrences(l, rows[k][1]))
               /\ SumCounts(rows) = Len(l)
               /\ \A k \in 1..(Len(rows) - 1) : rows[k][2].int >= rows[k + 1][2].int
               /\ {t.data[k] : k \in 1..Len(t.data)} \cap {table.data[k] : k \in 1..Len(table.data)} = {}
        /\ TableUnchanged

\* counts over a column with a null, whose values do not all occur equally often
C6_Witness ==
    /\ result.op = "counts" /\ result.status = "ok"
    /\ HasNull(ColumnOf(result.index))
    /\ LET rows == RowsOf(Deref(result.value), heap)
       IN  Len(rows) >= 2 /\ rows[1][2].int > rows[Len(rows)][2].int

(***************************************************************************)
(* C7.  The table col.map(f, newType?, newName?) returns has as many rows  *)
(* and columns as the original; in every row the value at col's slot is f  *)
(* of the original value and every other slot's value is unchanged; the    *)
(* type at col's slot is newType whenever a newType is supplied and the    *)
(* name at col's slot is newName whenever a newName is supplied, otherwise *)
(* the original's; the other columns' types and names are unchanged.  If   *)
(* f fails on any element, map fails and no table is produced.             *)
(***************************************************************************)
C7_Map ==
    result.op = "map" =>
        LET i == result.index
            func == result.args[1]
            new_column_type == result.args[2]
            new_column_name == result.args[3]
            l == ColumnOf(i)
        IN  IF \E k \in 1..Len(l) : Apply(func, l[k]).status # "ok"
            THEN result.status # "ok" /\ result.value = None
            ELSE /\ result.status = "ok"
                 /\ LET t == Deref(result.value)
                        rows == RowsOf(t, heap)
                    IN  /\ Len(rows) = Len(orig.rows)
                        /\ Len(t.column_names) = Len(orig.column_names)
                        /\ Len(t.column_types) = Len(orig.column_types)
                        /\ \A k \in 1..Len(rows) :
                              /\ Len(rows[k]) = Len(orig.rows[k])
                              /\ \A s \in Slots :
                                    rows[k][s + 1] = IF s = i THEN Apply(func, l[k]).value
                                                     ELSE orig.rows[k][s + 1]
                        /\ \A s \in Slots :
                              /\ t.column_types[s + 1] =
                                    IF s = i /\ new_column_type # None THEN Deref(new_column_type)
                                    ELSE orig.column_types[s + 1]
                              /\ t.column_names[s + 1] =
                                    IF s = i /\ new_column_name # None THEN Deref(new_column_name)
                                    ELSE orig.column_names[s + 1]

(***************************************************************************)
(* C8.  A ColumnIterator over a table with N column names yields, on       *)
(* successive next() calls, the columns of slots 0 .. N-1 in that order,   *)
(* each once and each the one the table's factory gives; call N+1 signals  *)
(* exhaustion, and so does every later call, without advancing the index   *)
(* or yielding a column.  ColumnMapping's length is N, and iterating it    *)
(* starts a fresh iterator at slot 0.                                      *)
(***************************************************************************)
Least(a, b) == IF a < b THEN a ELSE b

C8_Iteration ==
    LET N == Len(table.column_names)
    IN  /\ iter.made =>
              /\ Len(iter.yielded) = Least(iter.calls, N)
              /\ \A k \in 1..Len(iter.yielded) :
                    iter.yielded[k] = _get_column(k - 1) /\ iter.yielded[k].index = k - 1
              /\ iter.i = Len(iter.yielded)
              /\ (iter.calls > N) => iter.last = "StopIteration"
              /\ (iter.calls >= 1 /\ iter.calls <= N) => iter.last = "ok"
        /\ result.op = "next" =>
              IF result.status = "ok"
              THEN result.value = Ref(iter.yielded[Len(iter.yielded)])
              ELSE result.status = "StopIteration" /\ result.value = None /\ iter.i = N
        /\ result.op = "__len__" => result.value = N
        /\ result.op = "__iter__" => iter = ColumnIterator

\* two calls after the last of at least two columns was yielded
C8_Witness ==
    /\ iter.made
    /\ Len(table.column_names) >= 2
    /\ iter.calls = Len(table.column_names) + 2
    /\ result.op = "next" /\ result.status = "StopIteration"

(***************************************************************************)
(* C9.  Each of a Column's three caches is computed at most once: the      *)
(* first demand populates it, and no later step computes it again or       *)
(* changes it, also when the computed slice is empty.                      *)
(***************************************************************************)
C9_Step ==
    \A i \in Slots :
        LET c == columns[i + 1]
            d == columns'[i + 1]
        IN  /\ d.fills.data <= 1 /\ d.fills.without_nulls <= 1 /\ d.fills.sorted <= 1
            /\ c.cached_data # None =>
                  d.cached_data = c.cached_data /\ d.fills.data = c.fills.data
            /\ c.cached_data_without_nulls # None =>
                  /\ d.cached_data_without_nulls = c.cached_data_without_nulls
                  /\ d.fills.without_nulls = c.fills.without_nulls
            /\ c.cached_data_sorted # None =>
                  /\ d.cached_data_sorted = c.cached_data_sorted
                  /\ d.fills.sorted = c.fills.sorted

C9_CachesComputedOnce == [][C9_Step]_vars

\* variance over a column with no rows: the empty slice was cached by the null test
\* and demanded again by the body
C9_Witness ==
    /\ result.op = "variance"
    /\ Len(table.data) = 0
    /\ columns[result.index + 1].cached_data = Ref(<<>>)
    /\ columns[result.index + 1].fills.data = 1

(***************************************************************************)
(* C10.  Casting preserves nulls for every column type: the cast result    *)
(* is as long as the column, it holds the absent marker wherever the       *)
(* input is the absent marker or the empty string, and casting a column    *)
(* already cast yields the same values.                                    *)
(***************************************************************************)
C10_CastPreservesNulls ==
    /\ \A h \in 2..Len(cast.history) :
          /\ Len(cast.history[h]) = Len(cast.history[h - 1])
          /\ \A k \in 1..Len(cast.history[h - 1]) :
                cast.history[h - 1][k] \in {NoneV, StrV(<<>>)} => cast.history[h][k] = NoneV
    /\ Len(cast.history) = 3 => cast.history[3] = cast.history[2]

====
